---- MODULE Spec2Model ----
(***************************************************************************)
(* NotebookLLM: the ingestion pipeline (app/services/ingestion/pipeline.py)*)
(* over the relational metadata store (app/db) and the per-notebook vector *)
(* collections (app/services/storage/notebook_store.py), the background    *)
(* submission of the sources tab (app/ui/sources_tab.py) and retrieval     *)
(* (app/services/retrieval/vector_search.py).                              *)
(*                                                                         *)
(* The relational store is SQLite behind SQLAlchemy sessions: a flush()    *)
(* writes inside the session's open transaction, only get_db's commit()    *)
(* makes it visible to other sessions, and get_db's rollback() discards    *)
(* it.  The model therefore keeps the committed tables (sources, chunks)   *)
(* apart from each ingestion session's uncommitted writes (tx).            *)
(***************************************************************************)
EXTENDS Integers, Sequences, FiniteSets, TLC

\* ---------------------------------------------------------------- bounds
\* ingest_file calls in one behaviour
MaxIngestions == 2
\* characters of a text given to chunk_text on its own
MaxChars == 9
\* largest chunk_size and overlap given to chunk_text on its own
MaxChunkSize == 3
MaxOverlap == 3
\* hits given to build_context's rendering on its own
MaxHits == 3
\* full batches of texts given to embed_texts on its own (one more text than
\* that at most)
MaxBatches == 2
\* pairs of the Gradio history given to chat's history conversion on its own
MaxPairs == 6
\* calls made on a notebook's files (append_chat_message, read_chat_history,
\* save_report, save_quiz, save_podcast)
MaxCalls == 3
\* entries another client puts into the collection a vector_search reads
MaxEntries == 2
\* chat calls one caller makes
MaxTurns == 1

\* ---------------------------------------------------------------- inputs
\* Source and notebook ids are uuids; two of each are told apart.
SourceIds == {1, 2}
Notebooks == {1, 2}
\* A text is the sequence of its whitespace-delimited words (text.split()).
Texts == {<<>>, <<"a", "b", "c">>}

\* Texts as character sequences: a word character and the whitespace.
Chars == {"x", " "}
CharTexts == UNION {[1..n -> Chars] : n \in 0..MaxChars}
\* chunk_size and overlap are plain ints: zero and negative values included.
ChunkSizes == (-1)..MaxChunkSize
Overlaps == (-1)..MaxOverlap
\* The text of the chunker test and of end-to-end scenario A: 1200 words, here
\* of one character each, separated by single blanks.
ScenarioWords == 1200
ScenarioText == [i \in 1..(2 * ScenarioWords - 1) |-> IF i % 2 = 1 THEN "x" ELSE " "]
HitContents == {"alpha", "beta"}

\* ------------------------------------------------- configuration (config.py)
\* CHUNK_SIZE and CHUNK_OVERLAP are read from the environment; the model runs
\* with a deployment configured to 2 and 1 so that short texts give several
\* chunks.
CHUNK_SIZE == 2
CHUNK_OVERLAP == 1
\* The values config.py falls back to when the environment sets none.
DEFAULT_CHUNK_SIZE == 512
DEFAULT_CHUNK_OVERLAP == 64
TOP_K_CHUNKS == 8
TopKs == {1, TOP_K_CHUNKS}
batch_size == 100
SummaryWords == 3000

NoWriter == {}
\* Python's None
None == <<"None">>
\* Truth of a value in `if pair[0]:` and in `cited_ids or []`: None, the empty
\* string and the empty list are falsy.
truthy(x) == x # None /\ x # <<>>
NoSummary == [of |-> <<"none">>]

Min(a, b) == IF a <= b THEN a ELSE b
Max(a, b) == IF a >= b THEN a ELSE b
Range(f) == {f[i] : i \in DOMAIN f}

\* ------------------------------------------------------------- chunker.py
\* text.split(): the maximal runs of non-whitespace characters, in order.  A
\* text is a sequence of characters, a word the sequence of its characters.
\* The words of text[lo..hi] are those before and those after any one of its
\* blanks; the blank nearest the middle is taken.
RECURSIVE split_range(_, _, _)
split_range(text, lo, hi) ==
    LET blanks == {i \in lo..hi : text[i] = " "}
        dist(i) == IF 2 * i >= lo + hi THEN 2 * i - (lo + hi) ELSE (lo + hi) - 2 * i
    IN  IF lo > hi THEN <<>>
        ELSE IF blanks = {} THEN <<SubSeq(text, lo, hi)>>
        ELSE LET m == CHOOSE i \in blanks : \A j \in blanks : dist(i) <= dist(j)
             IN  split_range(text, lo, m - 1) \o split_range(text, m + 1, hi)

split(text) == split_range(text, 1, Len(text))

\* words[start:end] with Python's treatment of bounds that are negative or
\* beyond the end.
slice_bound(n, x) == IF x < 0 THEN Max(x + n, 0) ELSE Min(x, n)
slice(words, start, end) ==
    SubSeq(words, slice_bound(Len(words), start) + 1, slice_bound(Len(words), end))

\* for chunk_index, start in enumerate(range(0, len(words), step)): one window
\* per iteration, break after the window whose end is len(words).
\* end = min(start + chunk_size, len(words))
window_end_unclipped(start, chunk_size, n) == start + chunk_size
window_end(start, chunk_size, n) == Min(start + chunk_size, n)

\* enumerate: the index of the next window
same_index(chunk_index) == chunk_index
next_index(chunk_index) == chunk_index + 1

RECURSIVE chunk_windows_without_break(_, _, _, _, _)
chunk_windows_without_break(words, chunk_size, step, chunk_index, start) ==
    IF start >= Len(words) THEN <<>>
    ELSE LET end == window_end(start, chunk_size, Len(words))
             c == [content     |-> slice(words, start, end),
                   chunk_index |-> chunk_index,
                   word_start  |-> start,
                   word_end    |-> end]
         IN  <<c>> \o chunk_windows_without_break(words, chunk_size, step,
                                                  next_index(chunk_index),
                                                  start + step)

RECURSIVE chunk_windows(_, _, _, _, _)
chunk_windows(words, chunk_size, step, chunk_index, start) ==
    IF start >= Len(words) THEN <<>>
    ELSE LET end == window_end(start, chunk_size, Len(words))
             c == [content     |-> slice(words, start, end),
                   chunk_index |-> chunk_index,
                   word_start  |-> start,
                   word_end    |-> end]
         IN  IF end = Len(words) THEN <<c>>
             ELSE <<c>> \o chunk_windows(words, chunk_size, step,
                                         next_index(chunk_index), start + step)

chunk_text_dropping_short(words, chunk_size, overlap) ==
    IF Len(words) < chunk_size THEN <<>>
    ELSE chunk_windows(words, chunk_size, Max(1, chunk_size - overlap), 0, 0)

chunk_text_without_overlap(words, chunk_size, overlap) ==
    IF words = <<>> THEN <<>>
    ELSE chunk_windows(words, chunk_size, Max(1, chunk_size), 0, 0)

chunk_text(words, chunk_size, overlap) ==
    IF words = <<>> THEN <<>>
    ELSE chunk_windows(words, chunk_size, Max(1, chunk_size - overlap), 0, 0)

\* ------------------------------------------------------------ embedder.py
\* The external embedding capability, one vector per text of the batch.
embed_content(batch, task_type) ==
    [i \in 1..Len(batch) |-> [task |-> task_type, of |-> batch[i]]]

RECURSIVE embed_batches_prepending(_, _)
embed_batches_prepending(texts, i) ==
    IF i >= Len(texts) THEN <<>>
    ELSE embed_batches_prepending(texts, i + batch_size)
         \o embed_content(slice(texts, i, i + batch_size), "retrieval_document")

RECURSIVE embed_batches(_, _)
embed_batches(texts, i) ==
    IF i >= Len(texts) THEN <<>>
    ELSE embed_content(SubSeq(texts, i + 1, Min(i + batch_size, Len(texts))),
                       "retrieval_document")
         \o embed_batches(texts, i + batch_size)

embed_texts(texts) == IF texts = <<>> THEN <<>> ELSE embed_batches(texts, 0)

\* The batches the loop hands to genai.embed_content, in call order:
\* batch = texts[i : i + batch_size] for i in range(0, len(texts), batch_size).
RECURSIVE embed_requests(_, _)
embed_requests(texts, i) ==
    IF i >= Len(texts) THEN <<>>
    ELSE <<slice(texts, i, i + batch_size)>> \o embed_requests(texts, i + batch_size)

\* The requests of one embed_texts call: none when texts is empty (the early
\* return of line 25).
embed_texts_requests(texts) ==
    IF texts = <<>> THEN <<>> ELSE embed_requests(texts, 0)

\* ------------------------------------------------------ summary_service.py
\* pipeline.py:89 passes the first 3000 words; the generated text is opaque
\* and is modelled by what it summarises.
generate_summary(words) == [of |-> SubSeq(words, 1, Min(Len(words), SummaryWords))]

\* --------------------------------------------------- vector collections
\* A collection is named by the directory of its client and its own name.
\* Ingestion uses a client in the notebook's own chroma/ directory and the
\* collection "sources"; vector_search uses the process-wide client and the
\* collection "notebook_<id>".
get_chroma_collection_shared(notebook_id) == <<"users/notebooks/chroma:sources", 0>>
get_chroma_collection(notebook_id) ==
    <<"users/notebooks/<id>/chroma:sources", notebook_id>>

search_collection_of_ingestion(notebook_id) == get_chroma_collection(notebook_id)
search_collection(notebook_id) == <<"CHROMA_DIR:notebook_<id>", notebook_id>>

CollectionKeys ==
    ({"users/notebooks/<id>/chroma:sources", "CHROMA_DIR:notebook_<id>"}
        \X Notebooks)
    \cup {<<"users/notebooks/chroma:sources", 0>>}

\* collection.upsert: an entry with an id already present is replaced.
upsert(coll, entries) ==
    {e \in coll : \A n \in entries : n.id # e.id} \cup entries

VARIABLES
    sources,      \* committed sources table: id -> [nb, status, summary]
    srcText,      \* the text the extractor yields for the source's origin
    chunks,       \* committed chunks table: set of rows
    tx,           \* per ingestion session: its flushed, uncommitted writes
    writer,       \* the session holding SQLite's write lock: {} or {s}
    pc,           \* position of ingest_file for each source
    done,         \* the steps of the running ingestion that have succeeded
    loc,          \* ingest_file's locals: raw_chunks, vectors, db_chunks, summary
    attempts,     \* ingest_file calls made so far
    nextId,       \* the next fresh uuid (models.py _uuid)
    chroma,       \* collection key -> set of entries
    extracted,    \* sources whose files_extracted/<source_id>.txt exists
    worker,       \* the background thread of _run_ingestion_background
    returned,     \* what the call that made the latest step returned, as its
                  \* caller gets it (vector_search, build_context), or
                  \* the arguments of a delete_source_data that has
                  \* returned; NoCall otherwise
    nbGone,       \* the notebooks whose row has been deleted
    removed,      \* the chunk ids collection.delete has been given so far
    call,         \* a function applied on its own: its arguments and result
    messages_jsonl, \* notebook -> the characters of its chat/messages.jsonl
    chat_messages,  \* committed chat_messages rows, in created_at order
    artifacts,      \* the files under the notebooks' artifacts directories
    calls,          \* the notebook_store / vector_search calls that have
                    \* returned, in order, with arguments and result
    chats,          \* caller -> position and locals of its chat call
    searches        \* searcher -> position and locals of its vector_search call

vars == <<sources, srcText, chunks, tx, writer, pc, done, loc, attempts, nextId,
          chroma, extracted, worker, returned, nbGone, removed, call,
          messages_jsonl, chat_messages, artifacts, calls, chats, searches>>

\* The conversation logs, the message table, the artifacts and the calls on them.
storeFiles == <<messages_jsonl, chat_messages, artifacts, calls, chats, searches>>
\* The ingestion pipeline's tables, files and threads.
pipelineState == <<sources, srcText, chunks, tx, writer, pc, done, loc, attempts,
                   nextId, extracted, worker, nbGone, removed>>

NoCall == [op |-> "none", nb |-> 0, top_k |-> 0, outcome |-> "none", hits |-> <<>>]
NoTx == [status |-> "none", summary |-> NoSummary, chunks |-> {}]
NoLoc == [raw_chunks |-> <<>>, vectors |-> <<>>, db_chunks |-> <<>>,
          summary |-> NoSummary]

\* The concurrent callers of chat and of vector_search.
Callers == {1, 2}
Searchers == {1}
NoChat == [pc |-> "idle", turn |-> 0, persist_failed |-> FALSE]
NoSearch == [pc |-> "idle"]

\* No application of a function on its own is under way.
NoApply == [fn |-> "none"]

\* The stores after init_db, before any request.
Quiescent ==
    /\ sources = [s \in SourceIds |->
                    [nb |-> 0, status |-> "absent", summary |-> NoSummary]]
    /\ srcText = [s \in SourceIds |-> <<>>]
    /\ chunks = {}
    /\ tx = [s \in SourceIds |-> NoTx]
    /\ writer = NoWriter
    /\ pc = [s \in SourceIds |-> "idle"]
    /\ done = [s \in SourceIds |-> <<>>]
    /\ loc = [s \in SourceIds |-> NoLoc]
    /\ attempts = 0
    /\ nextId = 1
    /\ chroma = [k \in CollectionKeys |-> {}]
    /\ extracted = {}
    /\ worker = [s \in SourceIds |-> "none"]
    /\ returned = NoCall
    /\ nbGone = {}
    /\ removed = {}
    /\ messages_jsonl = [nb \in Notebooks |-> <<>>]
    /\ chat_messages = <<>>
    /\ artifacts = {}
    /\ calls = <<>>
    /\ chats = [c \in Callers |-> NoChat]
    /\ searches = [c \in Searchers |-> NoSearch]

Init == Quiescent /\ call = NoApply

\* ------------------------------------------------------------ session.py
\* What a session of its own reads: the committed row.
StatusOf(s) == sources[s].status
\* What the ingestion's own session reads: its flushed write, if any.
SessionStatus(s) == IF tx[s].status = "none" THEN sources[s].status ELSE tx[s].status

\* crud.update_source_status inside ingestion session s: sets the attributes and
\* flushes; nothing is committed.
update_source_status(s, status, summary) ==
    [tx[s] EXCEPT !.status = status,
                  !.summary = IF summary = NoSummary THEN @ ELSE summary]

\* get_db, normal exit of the with block: db.commit() then db.close().
commit(s) ==
    /\ sources' = [sources EXCEPT ![s] =
            [@ EXCEPT !.status = IF tx[s].status = "none" THEN @ ELSE tx[s].status,
                      !.summary = IF tx[s].summary = NoSummary THEN @ ELSE tx[s].summary]]
    /\ chunks' = chunks \cup tx[s].chunks
    /\ tx' = [tx EXCEPT ![s] = NoTx]
    /\ writer' = NoWriter

\* get_db, exceptional exit: db.rollback(), re-raise, db.close().
rollback(s) ==
    /\ tx' = [tx EXCEPT ![s] = NoTx]
    /\ writer' = writer \ {s}
    /\ UNCHANGED <<sources, chunks>>

\* ---------------------------------------------------------- sources_tab.py
\* add_file_source / add_url_source: create_source in a session of its own
\* (committed on leaving the with block), then _run_ingestion_background starts
\* the daemon thread and the handler returns.  The INSERT needs SQLite's write
\* lock.
add_source(s, nb, text) ==
    /\ sources[s].status = "absent"
    /\ nb \notin nbGone
    /\ \A r \in SourceIds : r < s => sources[r].status # "absent"
    /\ writer = NoWriter
    /\ sources' = [sources EXCEPT ![s] =
                      [nb |-> nb, status |-> "pending", summary |-> NoSummary]]
    /\ srcText' = [srcText EXCEPT ![s] = text]
    /\ worker' = [worker EXCEPT ![s] = "started"]
    /\ returned' = NoCall
    /\ UNCHANGED <<storeFiles, nbGone, removed, call,
                   chunks, tx, writer, pc, done, loc, attempts, nextId, chroma,
                   extracted>>

\* _run: calls ingest_file(notebook_id, source_id, file_path, source_type,
\* url=url).  ingest_file takes (username, notebook_id, source_id, file_path,
\* source_type): the call binds four positionals and leaves source_type
\* unbound, so Python raises TypeError before the body runs; _run catches
\* it, prints it and the thread ends.
run_background(s) ==
    /\ worker[s] = "started"
    /\ worker' = [worker EXCEPT ![s] = "done"]
    /\ returned' = NoCall
    /\ UNCHANGED <<storeFiles, nbGone, removed, call,
                   sources, srcText, chunks, tx, writer, pc, done, loc, attempts,
                   nextId, chroma, extracted>>

\* ------------------------------------------------------------- pipeline.py
Running(s) == pc[s] \notin {"idle", "returned", "raised", "raised_locked"}

\* ingest_file called with its declared arguments for an existing source:
\* the session opens and update_source_status(.., "processing") flushes an
\* UPDATE, which takes SQLite's write lock for the rest of the transaction.
ingest_begin(s) ==
    /\ sources[s].status \notin {"absent", "deleted"}
    /\ ~Running(s)
    /\ attempts < MaxIngestions
    /\ writer = NoWriter
    /\ writer' = {s}
    /\ tx' = [tx EXCEPT ![s] = update_source_status(s, "processing", NoSummary)]
    /\ pc' = [pc EXCEPT ![s] = "extract"]
    /\ done' = [done EXCEPT ![s] = <<>>]
    /\ loc' = [loc EXCEPT ![s] = NoLoc]
    /\ attempts' = attempts + 1
    /\ returned' = NoCall
    /\ UNCHANGED <<storeFiles, nbGone, removed, call,
                   sources, srcText, chunks, nextId, chroma, extracted, worker>>

\* The same call while another session holds the write lock: the UPDATE waits
\* for the busy timeout and fails ("database is locked"); the failed flush
\* leaves the session unusable, so the handler's update_source_status raises
\* as well and get_db rolls back.
ingest_begin_locked(s) ==
    /\ sources[s].status \notin {"absent", "deleted"}
    /\ ~Running(s)
    /\ attempts < MaxIngestions
    /\ writer # NoWriter
    /\ pc' = [pc EXCEPT ![s] = "raised_locked"]
    /\ done' = [done EXCEPT ![s] = <<>>]
    /\ loc' = [loc EXCEPT ![s] = NoLoc]
    /\ attempts' = attempts + 1
    /\ returned' = NoCall
    /\ UNCHANGED <<storeFiles, nbGone, removed, call,
                   sources, srcText, chunks, tx, writer, nextId, chroma,
                   extracted, worker>>

\* Steps 1-2: copy the raw file, parse_document, write files_extracted/<id>.txt.
extract(s) ==
    /\ pc[s] = "extract"
    /\ extracted' = extracted \cup {s}
    /\ pc' = [pc EXCEPT ![s] = "chunk"]
    /\ done' = [done EXCEPT ![s] = Append(@, "extract")]
    /\ returned' = NoCall
    /\ UNCHANGED <<storeFiles, nbGone, removed, call,
                   sources, srcText, chunks, tx, writer, loc, attempts, nextId,
                   chroma, worker>>

\* Step 3: chunk_text(text, CHUNK_SIZE, CHUNK_OVERLAP).
chunk(s) ==
    /\ pc[s] = "chunk"
    /\ loc' = [loc EXCEPT ![s].raw_chunks =
                  chunk_text(srcText[s], CHUNK_SIZE, CHUNK_OVERLAP)]
    /\ pc' = [pc EXCEPT ![s] = "embed"]
    /\ done' = [done EXCEPT ![s] = Append(@, "chunk")]
    /\ returned' = NoCall
    /\ UNCHANGED <<storeFiles, nbGone, removed, call,
                   sources, srcText, chunks, tx, writer, attempts, nextId, chroma,
                   extracted, worker>>

\* Step 4: embed_texts(contents).
embed(s) ==
    /\ pc[s] = "embed"
    /\ LET contents == [i \in 1..Len(loc[s].raw_chunks) |->
                           loc[s].raw_chunks[i].content]
       IN  loc' = [loc EXCEPT ![s].vectors = embed_texts(contents)]
    /\ pc' = [pc EXCEPT ![s] = "persist"]
    /\ done' = [done EXCEPT ![s] = Append(@, "embed")]
    /\ returned' = NoCall
    /\ UNCHANGED <<storeFiles, nbGone, removed, call,
                   sources, srcText, chunks, tx, writer, attempts, nextId, chroma,
                   extracted, worker>>

\* Step 5: crud.create_chunks: one Chunk row per draft, each with a fresh uuid,
\* added to the session and flushed (not committed).
create_chunks(s) ==
    /\ pc[s] = "persist"
    /\ LET n == Len(loc[s].raw_chunks)
           rows == {[id          |-> nextId + i - 1,
                     source_id   |-> s,
                     chunk_index |-> loc[s].raw_chunks[i].chunk_index,
                     content     |-> loc[s].raw_chunks[i].content] : i \in 1..n}
       IN  /\ tx' = [tx EXCEPT ![s].chunks = @ \cup rows]
           /\ loc' = [loc EXCEPT ![s].db_chunks = [i \in 1..n |-> nextId + i - 1]]
           /\ nextId' = nextId + n
    /\ pc' = [pc EXCEPT ![s] = "upsert"]
    /\ done' = [done EXCEPT ![s] = Append(@, "persist")]
    /\ returned' = NoCall
    /\ UNCHANGED <<storeFiles, nbGone, removed, call,
                   sources, srcText, chunks, writer, attempts, chroma, extracted,
                   worker>>

\* Step 6: collection.upsert into the notebook's collection.
upsert_vectors(s) ==
    /\ pc[s] = "upsert"
    /\ LET n == Len(loc[s].db_chunks)
           entries == {[id          |-> loc[s].db_chunks[i],
                        embedding   |-> loc[s].vectors[i],
                        document    |-> loc[s].raw_chunks[i].content,
                        source_id   |-> s,
                        chunk_index |-> loc[s].raw_chunks[i].chunk_index]
                       : i \in 1..n}
           k == get_chroma_collection(sources[s].nb)
       IN  chroma' = [chroma EXCEPT ![k] = upsert(@, entries)]
    /\ pc' = [pc EXCEPT ![s] = "summary"]
    /\ done' = [done EXCEPT ![s] = Append(@, "upsert")]
    /\ returned' = NoCall
    /\ UNCHANGED <<storeFiles, nbGone, removed, call,
                   sources, srcText, chunks, tx, writer, loc, attempts, nextId,
                   extracted, worker>>

\* Step 7: generate_summary over the first 3000 words.
summarise_swallowing_failure(s) ==
    /\ pc[s] = "summary"
    /\ \E ok \in BOOLEAN :
          /\ loc' = [loc EXCEPT ![s].summary =
                        IF ok THEN generate_summary(srcText[s]) ELSE NoSummary]
          /\ done' = [done EXCEPT ![s] = IF ok THEN Append(@, "summary") ELSE @]
    /\ pc' = [pc EXCEPT ![s] = "ready"]
    /\ returned' = NoCall
    /\ UNCHANGED <<storeFiles, nbGone, removed, call,
                   sources, srcText, chunks, tx, writer, attempts, nextId, chroma,
                   extracted, worker>>

summarise(s) ==
    /\ pc[s] = "summary"
    /\ loc' = [loc EXCEPT ![s].summary = generate_summary(srcText[s])]
    /\ pc' = [pc EXCEPT ![s] = "ready"]
    /\ done' = [done EXCEPT ![s] = Append(@, "summary")]
    /\ returned' = NoCall
    /\ UNCHANGED <<storeFiles, nbGone, removed, call,
                   sources, srcText, chunks, tx, writer, attempts, nextId, chroma,
                   extracted, worker>>

\* Step 8: update_source_status(.., "ready", summary=summary).
mark_ready(s) ==
    /\ pc[s] = "ready"
    /\ tx' = [tx EXCEPT ![s] = update_source_status(s, "ready", loc[s].summary)]
    /\ pc' = [pc EXCEPT ![s] = "commit"]
    /\ returned' = NoCall
    /\ UNCHANGED <<storeFiles, nbGone, removed, call,
                   sources, srcText, chunks, writer, done, loc, attempts, nextId,
                   chroma, extracted, worker>>

\* The with block ends without an exception: get_db commits and ingest_file
\* returns.
ingest_return(s) ==
    /\ pc[s] = "commit"
    /\ commit(s)
    /\ pc' = [pc EXCEPT ![s] = "returned"]
    /\ returned' = NoCall
    /\ UNCHANGED <<storeFiles, nbGone, removed, call,
                   srcText, done, loc, attempts, nextId, chroma, extracted,
                   worker>>

\* A step that calls out (extraction, the embedding capability when there is
\* something to embed, the vector store, the generation capability) raises.
CanRaise(s) ==
    \/ pc[s] \in {"extract", "upsert", "summary"}
    \/ pc[s] = "embed" /\ loc[s].raw_chunks # <<>>

step_raises(s) ==
    /\ CanRaise(s)
    /\ pc' = [pc EXCEPT ![s] = "handler"]
    /\ returned' = NoCall
    /\ UNCHANGED <<storeFiles, nbGone, removed, call,
                   sources, srcText, chunks, tx, writer, done, loc, attempts,
                   nextId, chroma, extracted, worker>>

\* except Exception: update_source_status(.., "failed") flushes in the same
\* session.
handler(s) ==
    /\ pc[s] = "handler"
    /\ tx' = [tx EXCEPT ![s] = update_source_status(s, "failed", NoSummary)]
    /\ pc' = [pc EXCEPT ![s] = "reraise"]
    /\ returned' = NoCall
    /\ UNCHANGED <<storeFiles, nbGone, removed, call,
                   sources, srcText, chunks, writer, done, loc, attempts, nextId,
                   chroma, extracted, worker>>

\* raise e: the exception leaves the with block, get_db rolls the session
\* back and re-raises to ingest_file's caller.
reraise(s) ==
    /\ pc[s] = "reraise"
    /\ rollback(s)
    /\ pc' = [pc EXCEPT ![s] = "raised"]
    /\ returned' = NoCall
    /\ UNCHANGED <<storeFiles, nbGone, removed, call,
                   srcText, done, loc, attempts, nextId, chroma, extracted,
                   worker>>

\* --------------------------------------------------------- vector_search.py
\* The hits collection.query returns: n_results distinct entries, nearest
\* first; the distances are the capability's, so any order may come back.
Rankings(coll, n) ==
    {f \in [1..n -> coll] : \A i, j \in 1..n : i # j => f[i] # f[j]}

Hit(e) == [id |-> e.id, content |-> e.document, source_id |-> e.source_id,
           chunk_index |-> e.chunk_index]

\* collection.count() == 0: the early return that skips the query.
never_empty(count) == FALSE
is_empty(count) == count = 0

\* What a vector_search call can return in the present state: [] with no query
\* on an empty collection; otherwise embed_query or collection.query may raise,
\* or the query gives min(top_k, count) hits.
search_results(nb, top_k) ==
    LET coll == chroma[search_collection(nb)]
        count == Cardinality(coll)
        result(outcome, queried, hits) ==
            [op |-> "vector_search", nb |-> nb, top_k |-> top_k,
             outcome |-> outcome, queried |-> queried, hits |-> hits]
    IN  IF is_empty(count)
        THEN {result("ok", FALSE, <<>>)}
        ELSE {result("raised", FALSE, <<>>), result("raised", TRUE, <<>>)}
             \cup {result("ok", TRUE, [i \in DOMAIN r |-> Hit(r[i])])
                      : r \in Rankings(coll, Min(top_k, count))}

vector_search(nb, top_k) ==
    /\ returned' \in search_results(nb, top_k)
    /\ UNCHANGED <<storeFiles, nbGone, removed, call,
                   sources, srcText, chunks, tx, writer, pc, done, loc, attempts,
                   nextId, chroma, extracted, worker>>

\* A string built by concatenation is the sequence of the fragments
\* concatenated; "" is the empty sequence.
RECURSIVE join(_, _)
join(sep, parts) ==
    IF parts = <<>> THEN <<>>
    ELSE IF Len(parts) = 1 THEN parts[1]
    ELSE parts[1] \o <<sep>> \o join(sep, Tail(parts))

\* f"[{i}] {hit['content']}"
block_from_zero(i, hit) == <<"[" \o ToString(i - 1) \o "] ", hit.content>>
block(i, hit) == <<"[" \o ToString(i) \o "] ", hit.content>>

\* build_context after its vector_search call: ("", []) for no hits, else
\* the numbered blocks (enumerate from 1) joined by a blank line and the ids
\* of the hits in the same order.
render_context(hits) ==
    IF hits = <<>>
    THEN [context |-> <<>>, cited_ids |-> <<>>]
    ELSE [context   |-> join("\n\n", [i \in 1..Len(hits) |-> block(i, hits[i])]),
          cited_ids |-> [i \in 1..Len(hits) |-> hits[i].id]]

\* build_context(notebook_id, query): vector_search with the default top_k,
\* whose exception is not caught.
build_context(nb) ==
    /\ \E r \in search_results(nb, TOP_K_CHUNKS) :
          returned' =
              [op |-> "build_context", nb |-> nb, outcome |-> r.outcome,
               queried |-> r.queried, hits |-> r.hits,
               context |-> IF r.outcome = "ok"
                           THEN render_context(r.hits).context ELSE <<>>,
               cited_ids |-> IF r.outcome = "ok"
                             THEN render_context(r.hits).cited_ids ELSE <<>>]
    /\ UNCHANGED <<storeFiles, nbGone, removed, call,
                   sources, srcText, chunks, tx, writer, pc, done, loc, attempts,
                   nextId, chroma, extracted, worker>>

\* ------------------------------------------------ pipeline.delete_source_data
\* collection.delete(ids=chunk_ids); ids not present are ignored.
delete_collection(coll, ids) == {}
delete(coll, ids) == {e \in coll : e.id \notin ids}

\* delete_source_data(username, notebook_id, source_id, chunk_ids), called
\* with the ids of the source's chunk rows: the entries are deleted from the
\* notebook's collection (skipped for no ids), then the extracted text file is
\* unlinked if it exists.  When collection.delete raises nothing is removed.
delete_source_data(s) ==
    /\ sources[s].status \notin {"absent", "deleted"}
    /\ LET chunk_ids == {r.id : r \in {c \in chunks : c.source_id = s}}
           k == get_chroma_collection(sources[s].nb)
           result ==
               [op |-> "delete_source_data", source_id |-> s,
                nb |-> sources[s].nb, chunk_ids |-> chunk_ids]
       IN  \/ /\ chroma' = [chroma EXCEPT ![k] =
                               IF chunk_ids # {} THEN delete(@, chunk_ids) ELSE @]
              /\ removed' = removed \cup chunk_ids
              /\ extracted' = extracted \ {s}
              /\ returned' = result
           \/ /\ chunk_ids # {}
              /\ returned' = NoCall
              /\ UNCHANGED <<chroma, removed, extracted>>
    /\ UNCHANGED <<storeFiles, nbGone, call, sources, srcText, chunks, tx, writer, pc, done,
                   loc, attempts, nextId, worker>>

\* ------------------------------------------- notebook_tab.delete_notebook
\* crud.delete_notebook in a session of its own: db.delete(nb) cascades in the
\* ORM to the notebook's sources and their chunk rows, committed on leaving
\* the with block.  Nothing else is touched.  The DELETE needs SQLite's write
\* lock.
delete_notebook(nb) ==
    /\ nb \notin nbGone
    /\ writer = NoWriter
    /\ nbGone' = nbGone \cup {nb}
    /\ sources' = [s \in SourceIds |->
                      IF sources[s].nb = nb
                      THEN [sources[s] EXCEPT !.status = "deleted"]
                      ELSE sources[s]]
    /\ chunks' = {r \in chunks : sources[r.source_id].nb # nb}
    /\ chat_messages' = SelectSeq(chat_messages, LAMBDA row : row.notebook_id # nb)
    /\ returned' = NoCall
    /\ UNCHANGED <<messages_jsonl, artifacts, calls, chats, searches>>
    /\ UNCHANGED <<removed, call, srcText, tx, writer, pc, done, loc, attempts,
                   nextId, chroma, extracted, worker>>

\* ------------------------------------- vector_search.py, its steps
\* vector_search step by step, next to other clients of the collection it
\* opens.  Line 32 reads the size; embed_query (line 35) is a call to the
\* embedding capability; line 38 reads the size again for n_results and line
\* 36 queries.  collection.query rejects n_results <= 0.
IndexEntries ==
    {[id |-> i, embedding |-> [task |-> "retrieval_document", of |-> i],
      document |-> "alpha", source_id |-> 1, chunk_index |-> i - 1]
     : i \in 1..MaxEntries}

collection_upsert(nb, entries) ==
    /\ entries # {}
    /\ chroma' = [chroma EXCEPT ![search_collection(nb)] = upsert(@, entries)]
    /\ UNCHANGED <<storeFiles, pipelineState, returned, call>>

collection_delete(nb, ids) ==
    /\ ids # {}
    /\ chroma' = [chroma EXCEPT ![search_collection(nb)] = delete(@, ids)]
    /\ UNCHANGED <<storeFiles, pipelineState, returned, call>>

search_returns(c, outcome, error, queried, n_results, hits) ==
    /\ searches' = [searches EXCEPT ![c] =
            [pc |-> "returned", nb |-> searches[c].nb, top_k |-> searches[c].top_k,
             outcome |-> outcome, error |-> error, queried |-> queried,
             n_results |-> n_results, hits |-> hits]]
    /\ UNCHANGED <<messages_jsonl, chat_messages, artifacts, calls, chats>>
    /\ UNCHANGED <<pipelineState, chroma, returned, call>>

\* Lines 27-33: open the collection; return [] if it is empty.
search_size_check(c, nb, top_k) ==
    /\ searches[c].pc \in {"idle", "returned"}
    /\ IF is_empty(Cardinality(chroma[search_collection(nb)]))
       THEN searches' = [searches EXCEPT ![c] =
               [pc |-> "returned", nb |-> nb, top_k |-> top_k, outcome |-> "ok",
                error |-> "none", queried |-> FALSE, n_results |-> -1,
                hits |-> <<>>]]
       ELSE searches' = [searches EXCEPT ![c] =
               [pc |-> "embed_query", nb |-> nb, top_k |-> top_k]]
    /\ UNCHANGED <<messages_jsonl, chat_messages, artifacts, calls, chats>>
    /\ UNCHANGED <<pipelineState, chroma, returned, call>>

\* Line 35: embed_query returns the query vector, or raises.
search_embed_query(c) ==
    /\ searches[c].pc = "embed_query"
    /\ \/ /\ searches' = [searches EXCEPT ![c].pc = "query"]
          /\ UNCHANGED <<messages_jsonl, chat_messages, artifacts, calls, chats>>
          /\ UNCHANGED <<pipelineState, chroma, returned, call>>
       \/ search_returns(c, "raised", "embed_query", FALSE, -1, <<>>)

\* Lines 36-51: n_results = min(top_k, collection.count()), the query and
\* the hits built from its result.
search_query(c) ==
    /\ searches[c].pc = "query"
    /\ LET coll == chroma[search_collection(searches[c].nb)]
           n_results == Min(searches[c].top_k, Cardinality(coll))
       IN  IF n_results <= 0
           THEN search_returns(c, "raised", "n_results", TRUE, n_results, <<>>)
           ELSE \E r \in Rankings(coll, n_results) :
                    search_returns(c, "ok", "none", TRUE, n_results,
                                   [i \in DOMAIN r |-> Hit(r[i])])

\* ------------------------------------------------------ notebook_store.py
\* Texts are sequences of characters; a line feed and a backslash are the two
\* characters json.dumps has to escape for a record to stay on one line.
LF == "\n"
BACKSLASH == "\\"
Roles == {"user", "assistant"}
Contents == {<<"h", "i">>, <<"a", LF, "b">>, <<BACKSLASH, "n">>}
CitedIdLists == {<<>>, <<1, 2>>}
CitedIds == {None} \cup CitedIdLists

\* json.dumps of a string: the characters, escaped.
escape_nothing(content) == content
RECURSIVE escape(_)
escape(content) ==
    IF content = <<>> THEN <<>>
    ELSE (IF Head(content) = LF THEN <<BACKSLASH, "n">>
          ELSE IF Head(content) = BACKSLASH THEN <<BACKSLASH, BACKSLASH>>
          ELSE <<Head(content)>>)
         \o escape(Tail(content))

\* json.loads of a string body: FALSE for a body no json.dumps produces.
RECURSIVE well_escaped(_)
well_escaped(chars) ==
    IF chars = <<>> THEN TRUE
    ELSE IF Head(chars) = LF THEN FALSE
    ELSE IF Head(chars) = BACKSLASH
         THEN /\ Len(chars) >= 2
              /\ chars[2] \in {"n", BACKSLASH}
              /\ well_escaped(Tail(Tail(chars)))
    ELSE well_escaped(Tail(chars))

RECURSIVE unescape(_)
unescape(chars) ==
    IF chars = <<>> THEN <<>>
    ELSE IF Head(chars) = BACKSLASH
         THEN <<IF chars[2] = "n" THEN LF ELSE BACKSLASH>> \o unescape(Tail(Tail(chars)))
    ELSE <<Head(chars)>> \o unescape(Tail(chars))

\* json.dumps of a list of ids and of the timestamp, as text.
RECURSIVE items_text(_)
items_text(ids) ==
    IF ids = <<>> THEN ""
    ELSE ToString(Head(ids)) \o (IF Len(ids) > 1 THEN ", " ELSE "") \o items_text(Tail(ids))
list_text(ids) == "[" \o items_text(ids) \o "]"

\* json.dumps(record): one line of text, the content escaped.
dumps(record) ==
    <<"{", record.role, list_text(record.cited_ids), ToString(record.timestamp)>>
    \o escape(record.content) \o <<"}">>

\* json.loads(line) succeeds on the lines json.dumps can have produced.
decodable(line) ==
    /\ Len(line) >= 5
    /\ line[1] = "{" /\ line[Len(line)] = "}"
    /\ \E ids \in CitedIdLists : list_text(ids) = line[3]
    /\ \E ts \in 1..(MaxCalls + 1) : ToString(ts) = line[4]
    /\ well_escaped(SubSeq(line, 5, Len(line) - 1))

loads(line) ==
    [role |-> line[2],
     content |-> unescape(SubSeq(line, 5, Len(line) - 1)),
     cited_ids |-> CHOOSE ids \in CitedIdLists : list_text(ids) = line[3],
     timestamp |-> CHOOSE ts \in 1..(MaxCalls + 1) : ToString(ts) = line[4]]

\* `for line in f`: the file cut at its line feeds.
RECURSIVE lines_from(_, _)
lines_from(file, line) ==
    IF file = <<>> THEN (IF line = <<>> THEN <<>> ELSE <<line>>)
    ELSE IF Head(file) = LF THEN <<line>> \o lines_from(Tail(file), <<>>)
    ELSE lines_from(Tail(file), Append(line, Head(file)))

\* read_chat_history's loop: blank lines and lines json.loads rejects are skipped.
RECURSIVE decode_lines(_)
decode_lines(lines) ==
    IF lines = <<>> THEN <<>>
    ELSE (IF Head(lines) # <<>> /\ decodable(Head(lines))
            THEN <<loads(Head(lines))>> ELSE <<>>)
         \o decode_lines(Tail(lines))

\* datetime.now(): a clock that the calls advance.
now == Len(calls) + 1

\* `cited_ids or []`
or_empty(cited_ids) == IF truthy(cited_ids) THEN cited_ids ELSE <<>>

append_line(nb, role, content, cited_ids) ==
    [messages_jsonl EXCEPT ![nb] =
        @ \o dumps([role |-> role, content |-> content,
                     cited_ids |-> or_empty(cited_ids), timestamp |-> now])
          \o <<LF>>]

append_chat_message(nb, role, content, cited_ids) ==
    /\ Len(calls) < MaxCalls
    /\ messages_jsonl' = append_line(nb, role, content, cited_ids)
    /\ calls' = Append(calls, [op |-> "append_chat_message", nb |-> nb, role |-> role,
                               content |-> content, cited_ids |-> cited_ids,
                               result |-> None])
    /\ UNCHANGED <<chat_messages, artifacts, chats, searches>>
    /\ UNCHANGED <<pipelineState, chroma, returned, call>>

read_chat_history(nb) ==
    /\ Len(calls) < MaxCalls
    /\ calls' = Append(calls, [op |-> "read_chat_history", nb |-> nb,
                               result |-> decode_lines(lines_from(messages_jsonl[nb], <<>>))])
    /\ UNCHANGED <<messages_jsonl, chat_messages, artifacts, chats, searches>>
    /\ UNCHANGED <<pipelineState, chroma, returned, call>>

\* An artifact file: its notebook, its directory (kind) and its name.
prefix_map == [reports |-> "report", quizzes |-> "quiz", podcasts |-> "podcast"]
\* d.glob(f"{prefix}_*.{ext}")
glob(nb, kind, prefix, ext) ==
    {f \in artifacts : f.nb = nb /\ f.kind = kind
                         /\ f.name[1] = prefix /\ f.name[3] = ext}
\* n = len(existing) + 1
artifact_number_first(existing) == 1
artifact_number(existing) == Cardinality(existing) + 1
_next_artifact_path(nb, kind, ext) ==
    [nb |-> nb, kind |-> kind,
     name |-> <<prefix_map[kind],
                artifact_number(glob(nb, kind, prefix_map[kind], ext)), ext>>]

\* path.write_text / path.write_bytes: the file is created or overwritten.
write(path, content) ==
    {f \in artifacts : [nb |-> f.nb, kind |-> f.kind, name |-> f.name] # path}
    \cup {[nb |-> path.nb, kind |-> path.kind, name |-> path.name,
            content |-> content]}

save_artifact(op, nb, kind, ext, content) ==
    /\ Len(calls) < MaxCalls
    /\ LET path == _next_artifact_path(nb, kind, ext)
       IN  /\ artifacts' = write(path, content)
           /\ calls' = Append(calls, [op |-> op, nb |-> nb, content |-> content,
                                      result |-> path])
    /\ UNCHANGED <<messages_jsonl, chat_messages, chats, searches>>
    /\ UNCHANGED <<pipelineState, chroma, returned, call>>

save_report(nb, md_text) == save_artifact("save_report", nb, "reports", "md", md_text)
save_quiz(nb, md_text) == save_artifact("save_quiz", nb, "quizzes", "md", md_text)
save_podcast(nb, mp3_bytes) ==
    save_artifact("save_podcast", nb, "podcasts", "mp3", mp3_bytes)

\* The notebook_store functions called one after another; the text or bytes
\* of a saved artifact are told apart by the call that saves them.
NextStore ==
    \/ \E nb \in Notebooks, role \in Roles, content \in Contents,
          cited_ids \in CitedIds : append_chat_message(nb, role, content, cited_ids)
    \/ \E nb \in Notebooks : read_chat_history(nb)
    \/ \E nb \in Notebooks : save_report(nb, <<"artifact of call", now>>)
    \/ \E nb \in Notebooks : save_quiz(nb, <<"artifact of call", now>>)
    \/ \E nb \in Notebooks : save_podcast(nb, <<"artifact of call", now>>)

SpecStore == Init /\ [][NextStore]_vars

\* ------------------------------------------- chat_service.py, client.py
\* gradio_history[-5:] and chat_history[-10:]
HistoryPairs == 5
HistoryTurns == 10

\* chat, step 2: the messages of the pairs, a falsy side skipped.
RECURSIVE history_of_pairs(_)
history_of_pairs(pairs) ==
    IF pairs = <<>> THEN <<>>
    ELSE (IF truthy(Head(pairs)[1])
            THEN <<[role |-> "user", content |-> Head(pairs)[1]]>> ELSE <<>>)
         \o (IF truthy(Head(pairs)[2])
               THEN <<[role |-> "model", content |-> Head(pairs)[2]]>> ELSE <<>>)
         \o history_of_pairs(Tail(pairs))

convert_history(gradio_history) ==
    history_of_pairs(slice(gradio_history, -HistoryPairs, Len(gradio_history)))

\* generate_rag_answer: the history handed to _model.start_chat.
start_chat_history(chat_history) ==
    LET recent == slice(chat_history, -HistoryTurns, Len(chat_history))
    IN  [i \in 1..Len(recent) |->
            [role |-> recent[i].role, parts |-> <<recent[i].content>>]]

\* Binding of a call's positional arguments to a signature without defaults
\* or *args: Python raises TypeError unless the counts agree.
binds(parameters, arguments) == Len(arguments) = Len(parameters)

\* def build_context(notebook_id, query)
build_context_parameters == <<"notebook_id", "query">>
\* chat, line 34: build_context(username, notebook_id, user_question)
build_context_arguments == <<"username", "notebook_id", "user_question">>

\* The reply of lines 37-40.
Notice == <<"No relevant content found in your sources. ",
            "Please add sources to this notebook first.">>

\* chat(username, notebook_id, user_question, gradio_history) as the program
\* runs it: step 1 calls build_context with three positional arguments, the
\* call does not bind and chat raises TypeError before retrieval, generation
\* or persistence.  Nothing in chat catches an exception.  The record keeps
\* what the call returned and how many chunks the notebook's index held.
chat(nb) ==
    /\ ~binds(build_context_parameters, build_context_arguments)
    /\ returned' = [op |-> "chat", nb |-> nb, outcome |-> "raised",
                    error |-> "TypeError", answer |-> None, cited_ids |-> <<>>,
                    generated |-> FALSE, hits |-> <<>>,
                    chunks_in_index |-> Cardinality(chroma[search_collection(nb)])]
    /\ UNCHANGED <<storeFiles, pipelineState, chroma, call>>

\* Retrieval and chat as their callers run them, next to other clients of the
\* collection vector_search opens.
NextSearch ==
    \/ \E nb \in Notebooks, entries \in SUBSET IndexEntries : collection_upsert(nb, entries)
    \/ \E nb \in Notebooks, ids \in SUBSET (1..MaxEntries) : collection_delete(nb, ids)
    \/ \E c \in Searchers, nb \in Notebooks, top_k \in TopKs :
          search_size_check(c, nb, top_k)
    \/ \E c \in Searchers : search_embed_query(c)
    \/ \E c \in Searchers : search_query(c)
    \/ \E nb \in Notebooks : chat(nb)

SpecSearch == Init /\ [][NextSearch]_vars

\* ---------------------------------------- chat_service.py, chat's body
\* The body of chat from line 36 on, for a call whose build_context call has
\* returned (context, cited_ids): the reply for an empty context, generation,
\* the two appends to messages.jsonl, the two rows saved in one session.  The
\* generation call and each persistence step can raise; chat catches nothing.
Retrievals ==
    {render_context(hits) :
        hits \in {<<>>, <<[id |-> 1, content |-> "alpha"],
                          [id |-> 2, content |-> "beta"]>>}}

question_of(c, turn) == <<"question ", ToString(c), ".", ToString(turn)>>
\* generate_rag_answer: the generated text is opaque and is modelled by the
\* question it answers.
generate_rag_answer(question) == <<"answer to ">> \o question

chat_returns(c, outcome, answer, cited_ids, persist_failed) ==
    chats' = [chats EXCEPT ![c] =
        [pc |-> "returned", turn |-> chats[c].turn,
         persist_failed |-> chats[c].persist_failed \/ persist_failed,
         nb |-> chats[c].nb, outcome |-> outcome, answer |-> answer,
         cited_ids |-> cited_ids]]

\* Lines 34-40: the retrieval result; an empty context is answered at once.
chat_retrieved(c, nb, retrieval) ==
    /\ chats[c].pc \in {"idle", "returned"}
    /\ chats[c].turn < MaxTurns
    /\ IF retrieval.context = <<>>
       THEN chats' = [chats EXCEPT ![c] =
               [pc |-> "returned", turn |-> chats[c].turn + 1,
                persist_failed |-> chats[c].persist_failed, nb |-> nb,
                outcome |-> "ok", answer |-> Notice, cited_ids |-> <<>>]]
       ELSE chats' = [chats EXCEPT ![c] =
               [pc |-> "generate", turn |-> chats[c].turn + 1,
                persist_failed |-> chats[c].persist_failed, nb |-> nb,
                question |-> question_of(c, chats[c].turn + 1),
                context |-> retrieval.context, cited_ids |-> retrieval.cited_ids,
                answer |-> None]]
    /\ UNCHANGED <<messages_jsonl, chat_messages, artifacts, calls, searches>>
    /\ UNCHANGED <<pipelineState, chroma, returned, call>>

\* Lines 42-51: the history conversion and generate_rag_answer.
chat_generate(c) ==
    /\ chats[c].pc = "generate"
    /\ \/ chats' = [chats EXCEPT ![c].pc = "append_user",
                                  ![c].answer = generate_rag_answer(chats[c].question)]
       \/ chat_returns(c, "raised", None, <<>>, FALSE)
    /\ UNCHANGED <<messages_jsonl, chat_messages, artifacts, calls, searches>>
    /\ UNCHANGED <<pipelineState, chroma, returned, call>>

\* Lines 54-56: append_chat_message(username, notebook_id, "user", user_question)
chat_append_user(c) ==
    /\ chats[c].pc = "append_user"
    /\ \/ /\ messages_jsonl' = append_line(chats[c].nb, "user", chats[c].question, None)
          /\ chats' = [chats EXCEPT ![c].pc = "append_assistant"]
       \/ /\ chat_returns(c, "raised", None, <<>>, TRUE)
          /\ UNCHANGED messages_jsonl
    /\ UNCHANGED <<chat_messages, artifacts, calls, searches>>
    /\ UNCHANGED <<pipelineState, chroma, returned, call>>

\* Lines 57-59: append_chat_message(..., "assistant", answer, cited_ids=cited_ids)
chat_append_assistant(c) ==
    /\ chats[c].pc = "append_assistant"
    /\ \/ /\ messages_jsonl' = append_line(chats[c].nb, "assistant", chats[c].answer,
                                            chats[c].cited_ids)
          /\ chats' = [chats EXCEPT ![c].pc = "save_messages"]
       \/ /\ chat_returns(c, "raised", None, <<>>, TRUE)
          /\ UNCHANGED messages_jsonl
    /\ UNCHANGED <<chat_messages, artifacts, calls, searches>>
    /\ UNCHANGED <<pipelineState, chroma, returned, call>>

\* crud.save_message: the row; cited_chunk_ids is JSON text, or NULL for no ids.
message_row(nb, role, content, cited_chunk_ids) ==
    [notebook_id |-> nb, role |-> role, content |-> content,
     cited_chunk_ids |-> IF truthy(cited_chunk_ids)
                         THEN list_text(cited_chunk_ids) ELSE "NULL"]

\* Lines 62-66: with get_db(): save_message twice, commit on leaving the
\* block, return; or an exception of the session (e.g. database is locked):
\* rollback, re-raise.
chat_save_messages(c) ==
    /\ chats[c].pc = "save_messages"
    /\ \/ /\ chat_messages' = chat_messages
                  \o <<message_row(chats[c].nb, "user", chats[c].question, None),
                       message_row(chats[c].nb, "assistant", chats[c].answer,
                                   chats[c].cited_ids)>>
          /\ chat_returns(c, "ok", chats[c].answer, chats[c].cited_ids, FALSE)
       \/ /\ chat_returns(c, "raised", None, <<>>, TRUE)
          /\ UNCHANGED chat_messages
    /\ UNCHANGED <<messages_jsonl, artifacts, calls, searches>>
    /\ UNCHANGED <<pipelineState, chroma, returned, call>>

NextChat ==
    \/ \E c \in Callers, nb \in Notebooks, retrieval \in Retrievals :
          chat_retrieved(c, nb, retrieval)
    \/ \E c \in Callers : chat_generate(c)
    \/ \E c \in Callers : chat_append_user(c)
    \/ \E c \in Callers : chat_append_assistant(c)
    \/ \E c \in Callers : chat_save_messages(c)

SpecChat == Init /\ [][NextChat]_vars

Next ==
    \/ \E s \in SourceIds, nb \in Notebooks, text \in Texts : add_source(s, nb, text)
    \/ \E s \in SourceIds : run_background(s)
    \/ \E s \in SourceIds : ingest_begin(s)
    \/ \E s \in SourceIds : ingest_begin_locked(s)
    \/ \E s \in SourceIds : extract(s)
    \/ \E s \in SourceIds : chunk(s)
    \/ \E s \in SourceIds : embed(s)
    \/ \E s \in SourceIds : create_chunks(s)
    \/ \E s \in SourceIds : upsert_vectors(s)
    \/ \E s \in SourceIds : summarise(s)
    \/ \E s \in SourceIds : mark_ready(s)
    \/ \E s \in SourceIds : ingest_return(s)
    \/ \E s \in SourceIds : step_raises(s)
    \/ \E s \in SourceIds : handler(s)
    \/ \E s \in SourceIds : reraise(s)
    \/ \E nb \in Notebooks, top_k \in TopKs : vector_search(nb, top_k)
    \/ \E nb \in Notebooks : build_context(nb)
    \/ \E s \in SourceIds : delete_source_data(s)
    \/ \E nb \in Notebooks : delete_notebook(nb)

Spec == Init /\ [][Next]_vars

\* ------------------------------------------- the functions on their own
\* chunk_text and build_context's rendering applied to arguments drawn from
\* bounded sets, the stores at rest.
NotApplied == [outcome |-> "none"]

HitLists ==
    UNION {{h \in [1..n -> [id : 1..MaxHits, content : HitContents]] :
               \A i, j \in 1..n : i # j => h[i].id # h[j].id}
           : n \in 0..MaxHits}

\* The texts given to embed_texts: n texts told apart by their position.
TextLists == {[i \in 1..n |-> i] : n \in 0..(MaxBatches * batch_size + 1)}

\* Gradio histories: pair k holds question k and answer k, either side possibly
\* missing (chat_tab.load_history builds (content, None) and (None, content)).
PairShapes == {"both", "user", "model"}
gradio_pair(k, shape) ==
    <<IF shape = "model" THEN None ELSE <<"question", k>>,
      IF shape = "user" THEN None ELSE <<"answer", k>>>>
GradioHistories ==
    UNION {{[k \in 1..n |-> gradio_pair(k, shapes[k])] : shapes \in [1..n -> PairShapes]}
           : n \in 0..MaxPairs}

ScenarioA ==
    [fn |-> "chunk_text", text |-> ScenarioText,
     chunk_size |-> DEFAULT_CHUNK_SIZE, overlap |-> DEFAULT_CHUNK_OVERLAP,
     result |-> NotApplied]

InitFunctions ==
    /\ Quiescent
    /\ call \in {[fn |-> "chunk_text", text |-> text, chunk_size |-> chunk_size,
                   overlap |-> overlap, result |-> NotApplied]
                  : text \in CharTexts, chunk_size \in ChunkSizes,
                    overlap \in Overlaps}
               \cup {ScenarioA}
               \cup {[fn |-> "build_context", hits |-> hits, result |-> NotApplied]
                     : hits \in HitLists}
               \cup {[fn |-> "embed_texts", texts |-> texts, result |-> NotApplied]
                     : texts \in TextLists}
               \cup {[fn |-> "chat_history", gradio_history |-> gradio_history,
                      result |-> NotApplied]
                     : gradio_history \in GradioHistories}

apply_chunk_text ==
    /\ call.fn = "chunk_text"
    /\ call.result = NotApplied
    /\ call' = [call EXCEPT !.result =
                   [outcome |-> "ok",
                    value |-> chunk_text(split(call.text), call.chunk_size,
                                         call.overlap)]]
    /\ UNCHANGED <<storeFiles, pipelineState, chroma, returned>>

apply_render_context ==
    /\ call.fn = "build_context"
    /\ call.result = NotApplied
    /\ call' = [call EXCEPT !.result =
                   [outcome |-> "ok", value |-> render_context(call.hits)]]
    /\ UNCHANGED <<storeFiles, pipelineState, chroma, returned>>

apply_embed_texts ==
    /\ call.fn = "embed_texts"
    /\ call.result = NotApplied
    /\ call' = [call EXCEPT !.result =
                   [outcome |-> "ok", value |-> embed_texts(call.texts),
                    requests |-> embed_texts_requests(call.texts)]]
    /\ UNCHANGED <<storeFiles, pipelineState, chroma, returned>>

\* chat's history conversion followed by generate_rag_answer's: what
\* _model.start_chat receives for the Gradio history chat was given.
apply_chat_history ==
    /\ call.fn = "chat_history"
    /\ call.result = NotApplied
    /\ call' = [call EXCEPT !.result =
                   [outcome |-> "ok",
                    value |-> start_chat_history(convert_history(call.gradio_history))]]
    /\ UNCHANGED <<storeFiles, pipelineState, chroma, returned>>

NextFunctions ==
    \/ apply_chunk_text
    \/ apply_render_context
    \/ apply_embed_texts
    \/ apply_chat_history

SpecFunctions == InitFunctions /\ [][NextFunctions]_vars

\* ------------------------------------------------------------ properties
AllSteps == <<"extract", "chunk", "embed", "persist", "upsert", "summary">>
Statuses == {"pending", "processing", "ready", "failed"}

\* The ids the latest ingest_file call of s got from create_chunks.
LatestIds(s) == Range(loc[s].db_chunks)
\* The entries of source s in the index of its own notebook.
IndexEntriesOf(s) ==
    {e \in chroma[get_chroma_collection(sources[s].nb)] : e.source_id = s}
\* The committed chunk metadata rows of source s.
ChunkRowsOf(s) == {r \in chunks : r.source_id = s}

\* C1: when a step of ingest_file has raised and ingest_file has re-raised to
\* its caller, the persisted status of the source is failed.
C1_FailedStatusPersisted ==
    \A s \in SourceIds :
        (pc[s] = "raised" /\ StatusOf(s) # "deleted") => StatusOf(s) = "failed"

\* C2: once extraction has been done, and for as long as the ingestion
\* runs, the status any other reader of the store gets is processing; a crash
\* of the worker at that point leaves exactly that committed row.
C2_ProcessingPersistedBeforeExtraction ==
    \A s \in SourceIds :
        pc[s] \in {"chunk", "embed", "persist", "upsert", "summary", "ready"}
            => StatusOf(s) = "processing"

\* C3: the committed status of a source is always one of pending, processing,
\* ready, failed, and it changes only pending -> processing -> ready | failed
\* (a later ingestion starts again at processing).
AllowedStatusStep(a, b) ==
    \/ a = b
    \/ <<a, b>> \in {<<"absent", "pending">>, <<"pending", "processing">>,
                     <<"processing", "ready">>, <<"processing", "failed">>,
                     <<"ready", "processing">>, <<"failed", "processing">>}
    \/ b = "deleted"

C3_StatusStateMachine ==
    /\ [](\A s \in SourceIds : StatusOf(s) \in Statuses \cup {"absent", "deleted"})
    /\ [][\A s \in SourceIds : AllowedStatusStep(StatusOf(s), sources'[s].status)]_vars

C5_SubmittedSourceLeavesPending ==
    \A s \in SourceIds :
        (worker[s] = "done" /\ StatusOf(s) # "deleted")
            => StatusOf(s) \in {"ready", "failed"}

\* C6: a retrieval returns no chunk of a source whose vectors are not yet
\* upserted, and a retrieval in the scope of a ready source, with top_k at
\* least the number of entries of the scope, returns that source's chunk ids.
C6_RetrievalSeesIngestedChunks ==
    (returned.op = "vector_search" /\ returned.outcome = "ok") =>
        \A s \in SourceIds :
            sources[s].nb = returned.nb =>
                LET hitIds == {returned.hits[i].id : i \in DOMAIN returned.hits}
                IN  /\ IndexEntriesOf(s) = {} =>
                          \A i \in DOMAIN returned.hits :
                              returned.hits[i].source_id # s
                    /\ ( /\ StatusOf(s) = "ready"
                         /\ {r.id : r \in ChunkRowsOf(s)} \cap removed = {}
                         /\ returned.top_k >=
                              Cardinality(chroma[get_chroma_collection(returned.nb)]) )
                       => {r.id : r \in ChunkRowsOf(s)} \subseteq hitIds

\* C7: whatever was ingested and retrieved, the index of a notebook holds only
\* entries upserted by ingestions into that notebook, and a retrieval in a
\* notebook returns no chunk of a source of another notebook.
C7_ScopeIsolation ==
    /\ \A n \in Notebooks :
          \A e \in chroma[get_chroma_collection(n)] \cup chroma[search_collection(n)] :
              sources[e.source_id].nb = n
    /\ returned.op = "vector_search" =>
          \A i \in DOMAIN returned.hits :
              sources[returned.hits[i].source_id].nb = returned.nb

C7_Witness ==
    /\ returned.op = "vector_search"
    /\ returned.nb = 1
    /\ \E s1, s2 \in SourceIds :
          /\ sources[s1].nb = 1
          /\ sources[s2].nb = 2
          /\ srcText[s1] = srcText[s2]
          /\ IndexEntriesOf(s1) # {}
          /\ IndexEntriesOf(s2) # {}

\* C8: when ingest_file has raised, the chunk metadata rows and the vector
\* entries that this call wrote before the failing step are all still stored.
C8_NothingRolledBack ==
    \A s \in SourceIds :
        (pc[s] = "raised" /\ StatusOf(s) # "deleted") =>
            /\ LatestIds(s) \subseteq {r.id : r \in ChunkRowsOf(s)}
            /\ ("upsert" \in Range(done[s]) =>
                   LatestIds(s) \subseteq {e.id : e \in IndexEntriesOf(s)})

\* C9: a retrieval returns no chunk of a source whose status is failed, in the
\* committed store or in the session of the ingestion that marked it.
Failed(s) == StatusOf(s) = "failed" \/ tx[s].status = "failed"

C10_ReingestionReplacesStaleEntries ==
    \A s \in SourceIds :
        ( /\ pc[s] = "returned"
          /\ StatusOf(s) = "ready"
          /\ {r.id : r \in ChunkRowsOf(s)} = LatestIds(s)
          /\ LatestIds(s) \cap removed = {} )
        => {e.id : e \in IndexEntriesOf(s)} = LatestIds(s)

\* C11: when the embedding step of an ingestion has raised (extract and chunk
\* had succeeded, nothing later ran) and ingest_file has re-raised, that
\* ingestion has written no chunk metadata row and no vector entry, and the
\* persisted status of the source is failed.
EmbeddingFailed(s) ==
    pc[s] = "raised" /\ done[s] = <<"extract", "chunk">> /\ StatusOf(s) # "deleted"

C11_EmbeddingFailureLeavesFailedAndNothingWritten ==
    \A s \in SourceIds :
        EmbeddingFailed(s) =>
            /\ loc[s].db_chunks = <<>>
            /\ loc[s].vectors = <<>>
            /\ StatusOf(s) = "failed"

\* C12: a delete_source_data that returns leaves in the notebook's index
\* exactly the entries it held minus those with the given chunk ids, leaves
\* every other index alone and the extracted text of the source absent; and no
\* retrieval returns a hit with an id that was deleted.
C12_DeleteSourceDataFrame ==
    /\ [][returned'.op = "delete_source_data" =>
            LET k == get_chroma_collection(returned'.nb)
            IN  /\ chroma'[k] = {e \in chroma[k] : e.id \notin returned'.chunk_ids}
                /\ \A j \in CollectionKeys \ {k} : chroma'[j] = chroma[j]
                /\ returned'.source_id \notin extracted']_vars
    /\ [](returned.op \in {"vector_search", "build_context"} =>
            \A i \in DOMAIN returned.hits : returned.hits[i].id \notin removed)

C12_Witness ==
    /\ returned.op = "delete_source_data"
    /\ returned.chunk_ids # {}
    /\ returned.chunk_ids \subseteq removed
    /\ returned.source_id \notin extracted
    /\ \E o \in SourceIds \ {returned.source_id} :
          /\ sources[o].nb = returned.nb
          /\ IndexEntriesOf(o) # {}
          /\ {e.id : e \in IndexEntriesOf(o)} \cap removed = {}

\* C13: once a notebook is deleted, none of its sources, chunk metadata rows,
\* vector entries and extracted texts is stored any more.
C13_DeleteNotebookCascades ==
    \A n \in nbGone :
        /\ \A s \in SourceIds : sources[s].nb = n => StatusOf(s) = "deleted"
        /\ \A r \in chunks : sources[r.source_id].nb # n
        /\ chroma[get_chroma_collection(n)] = {}
        /\ \A s \in extracted : sources[s].nb # n

\* C14: two sources of one notebook ingested at the same time: the ids their
\* ingestions assign are disjoint, once both calls have returned with the
\* sources ready the chunk table and the notebook's index hold the chunks of
\* both, and neither call fails on the other's hold of the store.
C14_ConcurrentIngestionsIndependent ==
    \A s1, s2 \in SourceIds :
        (s1 # s2 /\ sources[s1].nb = sources[s2].nb /\ sources[s1].nb \notin nbGone) =>
            /\ LatestIds(s1) \cap LatestIds(s2) = {}
            /\ ( /\ pc[s1] = "returned" /\ pc[s2] = "returned"
                 /\ StatusOf(s1) = "ready" /\ StatusOf(s2) = "ready"
                 /\ removed = {} )
               => \A s \in {s1, s2} :
                      /\ LatestIds(s) \subseteq {r.id : r \in ChunkRowsOf(s)}
                      /\ LatestIds(s) \subseteq {e.id : e \in IndexEntriesOf(s)}
            /\ ~(Running(s1) /\ pc[s2] = "raised_locked")

\* C15: build_context on a notebook whose index is empty returns the empty
\* context and no citation, does not raise and does not query the index.
C15_EmptyIndexGivesEmptyContext ==
    (returned.op = "build_context" /\ chroma[search_collection(returned.nb)] = {}) =>
        /\ returned.outcome = "ok"
        /\ returned.context = <<>>
        /\ returned.cited_ids = <<>>
        /\ ~returned.queried

C15_Witness ==
    /\ returned.op = "build_context"
    /\ chroma[search_collection(returned.nb)] = {}
    /\ returned.outcome = "ok"
    /\ returned.context = <<>>

\* C16: for n >= 1 hits the context is, for i = 1..n, the fragment "[i] "
\* followed by the text of hit i, with a blank line between consecutive blocks
\* and nothing else, and the citation list is the ids of the hits in order.
Rendered == call.fn = "build_context" /\ call.result # NotApplied

C16_ContextBlocksNumberedInHitOrder ==
    (Rendered /\ call.hits # <<>>) =>
        LET n == Len(call.hits)
            context == call.result.value.context
            cited_ids == call.result.value.cited_ids
        IN  /\ Len(context) = 3 * n - 1
            /\ \A i \in 1..n :
                  /\ context[3 * i - 2] = "[" \o ToString(i) \o "] "
                  /\ context[3 * i - 1] = call.hits[i].content
                  /\ i < n => context[3 * i] = "\n\n"
            /\ Len(cited_ids) = n
            /\ \A i \in 1..n : cited_ids[i] = call.hits[i].id

C16_Witness ==
    /\ Rendered
    /\ Len(call.hits) = 2
    /\ call.hits[1].id > call.hits[2].id
    /\ call.result.value.cited_ids = <<call.hits[1].id, call.hits[2].id>>

\* C17: chunk_text returns, for every text, chunk_size and overlap, and it
\* returns no chunk exactly when every character of the text is whitespace.
Chunked == call.fn = "chunk_text" /\ call.result # NotApplied

C17_NoChunksIffNoWords ==
    Chunked =>
        /\ call.result.outcome = "ok"
        /\ call.result.value = <<>>
              <=> \A i \in DOMAIN call.text : call.text[i] = " "

C17_Witness ==
    /\ Chunked
    /\ call.text = <<" ", " ">>
    /\ call.result.value = <<>>

\* C18: the chunk_index of the i-th chunk returned (counting from 0) is i.
C18_ChunkIndicesSequential ==
    Chunked =>
        \A i \in DOMAIN call.result.value : call.result.value[i].chunk_index = i - 1

C18_Witness ==
    /\ Chunked
    /\ Len(call.result.value) >= 3

\* C19 as stated: for every text, chunk_size and overlap, consecutive chunks
\* i, i+1 have word_end(i) - word_start(i+1) = overlap, the last overlap words
\* of chunk i are the first overlap words of chunk i+1, and every chunk but the
\* last has chunk_size words.
ConsecutiveOverlap(cs, chunk_size, overlap) ==
    \A i \in 1..(Len(cs) - 1) :
        /\ cs[i].word_end - cs[i + 1].word_start = overlap
        /\ Len(cs[i].content) = chunk_size
        /\ Len(cs[i + 1].content) >= overlap
        /\ SubSeq(cs[i].content, chunk_size - overlap + 1, chunk_size)
              = SubSeq(cs[i + 1].content, 1, overlap)

C19_OverlapForEveryInput ==
    Chunked => ConsecutiveOverlap(call.result.value, call.chunk_size, call.overlap)

\* C19 amended: the same for 0 <= overlap < chunk_size.
C19_OverlapWhenSmallerThanChunk ==
    (Chunked /\ 0 <= call.overlap /\ call.overlap < call.chunk_size) =>
        ConsecutiveOverlap(call.result.value, call.chunk_size, call.overlap)

C19_Witness ==
    /\ Chunked
    /\ call.overlap = 1
    /\ call.chunk_size = 2
    /\ Len(call.result.value) >= 3

\* C20: 1200 words chunked with chunk_size 512 and overlap 64 give three
\* chunks, with indices 0, 1, 2 and word ranges [0,512), [448,960), [896,1200).
C20_ScenarioA ==
    (Chunked /\ call.text = ScenarioText
       /\ call.chunk_size = DEFAULT_CHUNK_SIZE /\ call.overlap = DEFAULT_CHUNK_OVERLAP) =>
        [i \in DOMAIN call.result.value |->
            <<call.result.value[i].chunk_index, call.result.value[i].word_start,
              call.result.value[i].word_end>>]
          = <<(<<0, 0, 512>>), (<<1, 448, 960>>), (<<2, 896, 1200>>)>>

C20_Witness ==
    /\ Chunked
    /\ call.text = ScenarioText
    /\ call.chunk_size = DEFAULT_CHUNK_SIZE
    /\ Len(call.result.value[1].content) = DEFAULT_CHUNK_SIZE

\* ---- C21
\* embed_texts returns, for n texts, n vectors, the i-th being the embedding of
\* the i-th text; the texts reach the embedding capability in batches of at
\* most 100 consecutive texts, in order, none of them empty; for no texts the
\* result is empty and the capability is not contacted.
Embedded == call.fn = "embed_texts" /\ call.result # NotApplied

RECURSIVE Concat(_)
Concat(seqs) == IF seqs = <<>> THEN <<>> ELSE Head(seqs) \o Concat(Tail(seqs))

C21_EmbedTextsOrderAndBatches ==
    Embedded =>
        LET texts == call.texts
            vectors == call.result.value
            requests == call.result.requests
        IN  /\ Len(vectors) = Len(texts)
            /\ \A i \in 1..Len(texts) :
                   vectors[i] = [task |-> "retrieval_document", of |-> texts[i]]
            /\ \A k \in 1..Len(requests) : Len(requests[k]) \in 1..100
            /\ Concat(requests) = texts
            /\ (texts = <<>> => vectors = <<>> /\ requests = <<>>)

\* embed_texts has returned for more texts than two batches hold: three
\* requests were made, the last one partial.
C21_Witness ==
    /\ Embedded
    /\ Len(call.texts) > 2 * batch_size
    /\ Len(call.result.requests) = 3
    /\ Len(call.result.value) = Len(call.texts)

\* ---- C22
\* For a conversation of n prior turns, the history chat submits to the
\* generation capability is exactly the most recent min(10, n) turns, in
\* their original order.  A turn is one message of one role.
HistorySubmitted == call.fn = "chat_history" /\ call.result # NotApplied

\* All prior turns of the conversation, as the generation capability names them.
PriorTurns(gradio_history) ==
    LET all == history_of_pairs(gradio_history)
    IN  [i \in 1..Len(all) |-> [role |-> all[i].role, parts |-> <<all[i].content>>]]

WindowsAsClaimed(words, chunk_size, overlap, result) ==
    LET W == Len(words)
        step == Max(1, chunk_size - overlap)
        n == Len(result)
    IN  /\ n >= 1
        /\ \A i \in 1..n :
               /\ result[i].word_start = (i - 1) * step
               /\ result[i].word_end = Min((i - 1) * step + chunk_size, W)
               /\ result[i].content
                      = SubSeq(words, result[i].word_start + 1, result[i].word_end)
               /\ result[i].content # <<>>
        /\ result[n].word_end = W
        /\ \A i \in 1..(n - 1) : result[i].word_end # W
        /\ \A i, j \in 1..n :
               i # j => <<result[i].word_start, result[i].word_end>>
                            # <<result[j].word_start, result[j].word_end>>
        /\ (W <= chunk_size => n = 1)

\* As stated: for every chunk_size and overlap.
C26_WindowsForEveryInput ==
    Chunked /\ split(call.text) # <<>> =>
        WindowsAsClaimed(split(call.text), call.chunk_size, call.overlap,
                         call.result.value)

\* Amended: for chunk_size >= 1 and overlap >= 0, that is, whenever the step
\* does not exceed the chunk size.
C26_WindowsWhenStepWithinChunk ==
    Chunked /\ split(call.text) # <<>> /\ call.chunk_size >= 1 /\ call.overlap >= 0 =>
        WindowsAsClaimed(split(call.text), call.chunk_size, call.overlap,
                         call.result.value)

\* chunk_text has returned three chunks or more for chunk_size 2, overlap 1
\* and a text longer than one chunk.
C26_Witness ==
    /\ Chunked
    /\ call.chunk_size = 2 /\ call.overlap = 1
    /\ Len(split(call.text)) > call.chunk_size
    /\ Len(call.result.value) >= 3
    /\ call.result.value[Len(call.result.value)].word_end = Len(split(call.text))

\* ---- C23
\* The conversation log is append-only, and read_chat_history returns exactly
\* the records appended to the notebook's log, in append order, each with the
\* role, content and cited_ids it was appended with (no cited_ids reads back
\* as the empty list); it returns the empty list when nothing was appended.
AppendsBefore(i, nb) ==
    SelectSeq(SubSeq(calls, 1, i - 1),
              LAMBDA c : c.op = "append_chat_message" /\ c.nb = nb)

IsPrefix(a, b) == Len(a) <= Len(b) /\ SubSeq(b, 1, Len(a)) = a

ReadsBackWhatWasAppended ==
    \A i \in 1..Len(calls) :
        calls[i].op = "read_chat_history" =>
            LET appended == AppendsBefore(i, calls[i].nb)
                read == calls[i].result
            IN  /\ Len(read) = Len(appended)
                /\ \A k \in 1..Len(appended) :
                       /\ read[k].role = appended[k].role
                       /\ read[k].content = appended[k].content
                       /\ read[k].cited_ids
                              = (IF appended[k].cited_ids = None THEN <<>>
                                 ELSE appended[k].cited_ids)

C23_LogAppendOnlyAndReadBack ==
    /\ []ReadsBackWhatWasAppended
    /\ [][\A nb \in Notebooks : IsPrefix(messages_jsonl[nb], messages_jsonl'[nb])]_vars

\* Two messages were appended to a notebook, one of them with a line feed in
\* its content, and read_chat_history has then returned two records.
C23_Witness ==
    /\ Len(calls) = 3
    /\ calls[3].op = "read_chat_history"
    /\ Len(calls[3].result) = 2
    /\ \E k \in 1..2 : calls[k].op = "append_chat_message"
                        /\ calls[k].nb = calls[3].nb
                        /\ LF \in Range(calls[k].content)

\* ---- C24
\* Artifacts are auto-numbered per kind and notebook: the k-th save_report call
\* on a notebook writes report_k.md (likewise quiz_k.md, podcast_k.mp3), every
\* call returns a path different from all paths returned earlier, and no
\* artifact saved earlier is overwritten.
SaveOps == {"save_report", "save_quiz", "save_podcast"}
SavesBefore(i, op, nb) ==
    SelectSeq(SubSeq(calls, 1, i - 1), LAMBDA c : c.op = op /\ c.nb = nb)

C24_ArtifactsNumberedNeverOverwritten ==
    \A i \in 1..Len(calls) :
        calls[i].op \in SaveOps =>
            /\ calls[i].result.name[2]
                   = Len(SavesBefore(i, calls[i].op, calls[i].nb)) + 1
            /\ \A j \in 1..(i - 1) :
                   calls[j].op \in SaveOps => calls[j].result # calls[i].result
            /\ \E f \in artifacts :
                   /\ [nb |-> f.nb, kind |-> f.kind, name |-> f.name] = calls[i].result
                   /\ f.content = calls[i].content

\* Three save_report calls on one notebook have returned.
C24_Witness ==
    /\ Len(calls) = 3
    /\ \A i \in 1..3 : calls[i].op = "save_report" /\ calls[i].nb = calls[1].nb
    /\ calls[3].result.name = <<"report", 3, "md">>

\* ---- C27
\* vector_search never asks the index for zero results and never raises
\* because the collection is empty, whatever upserts and deletes other
\* clients of the collection make while it runs, a delete that empties the
\* collection between its size check and its query included.
C27_NeverQueriesForZeroResults ==
    \A c \in Searchers :
        searches[c].pc = "returned" =>
            /\ ~(searches[c].queried /\ searches[c].n_results = 0)
            /\ ~(searches[c].outcome = "raised" /\ searches[c].error = "n_results")

\* ---- C25
\* A failure of retrieval or of generation during a chat turn is raised to the
\* caller of chat and never turned into an empty context or into the notice,
\* so that the caller can tell 'no chunks found' from 'retrieval or generation
\* failed': an exception from chat means that retrieval or generation failed,
\* and a turn that finds no chunks returns without one.
ChatReturned == returned.op = "chat"
NoChunksToFind == returned.chunks_in_index = 0

C25_ChatRaisesOnlyRetrievalOrGenerationFailure ==
    ChatReturned =>
        /\ returned.outcome = "raised" =>
               returned.error \in {"embed_query", "collection.query",
                                   "generate_rag_answer"}
        /\ NoChunksToFind => returned.outcome = "ok"

\* ---- C28
\* After any sequence of chat turns on a notebook, turns in which a
\* persistence step fails part-way included, the JSONL log and the message
\* table hold the same sequence of (role, content, cited ids) turns for the
\* notebook.  Stated of the states in which no chat call is between its first
\* append and its return.
LogTurns(nb) ==
    LET read == decode_lines(lines_from(messages_jsonl[nb], <<>>))
    IN  [k \in 1..Len(read) |-> <<read[k].role, read[k].content,
                                  list_text(read[k].cited_ids)>>]
StoreTurns(nb) ==
    LET rows == SelectSeq(chat_messages, LAMBDA row : row.notebook_id = nb)
    IN  [k \in 1..Len(rows) |->
            <<rows[k].role, rows[k].content,
              IF rows[k].cited_chunk_ids = "NULL" THEN list_text(<<>>)
              ELSE rows[k].cited_chunk_ids>>]

C30_EmptyContextGivesNoticeAndRecordsNothing ==
    ChatReturned /\ NoChunksToFind =>
        /\ returned.outcome = "ok"
        /\ returned.answer = Notice
        /\ returned.cited_ids = <<>>
        /\ ~returned.generated
        /\ messages_jsonl[returned.nb] = <<>>
        /\ SelectSeq(chat_messages, LAMBDA row : row.notebook_id = returned.nb) = <<>>

====
